---- MODULE Spec2Model ----
(***************************************************************************)
(* A model of the double-entry accounting repository.  The repository      *)
(* holds independent programs that share no state:                         *)
(*   "app"    - Desktop/app.py, the web application (module-level          *)
(*              accounts / transactions, post_transaction, reports);       *)
(*   "ledger" - Desktop/double_entry.py, the console application (class    *)
(*              Ledger with its accounts and journal);                     *)
(*   "models" - Desktop/models.py, the stand-alone Account class.          *)
(*   "depreciation" - Desktop/app.py again: Equipment purchases, its       *)
(*              calculate_depreciation and the /reports route.             *)
(*   "storage" - Desktop/app.py with Desktop/storage.py: the web           *)
(*              application together with its data file, over restarts.    *)
(* A behaviour is a run of one of them (variable prog): the other          *)
(* programs' variables keep their initial value.                           *)
(*                                                                         *)
(* Money is counted in minor units (cents), as integers.  Descriptions     *)
(* and creation timestamps are left out: no branch of the code reads       *)
(* them.  Dates are small positive integers; 0 stands for None.            *)
(***************************************************************************)
EXTENDS Integers, Sequences, FiniteSets, TLC

VARIABLES
    prog,            \* which program this run is a run of
    steps,           \* number of calls made so far (bounded by MaxSteps)
    posts,           \* number of posting calls among them (bounded by MaxPosts)
    call,            \* the last call: its name and its scalar arguments
    result,          \* how the last call ended: "ok" or the exception raised
    returned,        \* what the last call returned, where a caller reads it
    prev,            \* the call before the last one: its name and how it ended
    accounts,        \* app.py: accounts, name -> Account
    transactions,    \* app.py: transactions, newest first
    ledger_accounts, \* double_entry.py: Ledger.accounts, code -> Account
    journal,         \* double_entry.py: Ledger.journal, indexed by entry id
    m_account,       \* models.py: one Account object
    st_accounts,     \* app.py run with its data file: accounts
    st_transactions, \* app.py run with its data file: transactions
    data_file        \* storage.py: the content of DATA_FILE

vars == <<prog, steps, posts, call, result, returned, prev, accounts, transactions,
          ledger_accounts, journal, m_account,
          st_accounts, st_transactions, data_file>>

app_vars == <<accounts, transactions>>
ledger_vars == <<ledger_accounts, journal>>
storage_vars == <<st_accounts, st_transactions, data_file>>

-----------------------------------------------------------------------------
(* Bounds and input domains *)

\* number of calls in a run
MaxSteps == 3

\* number of calls in a run that post a caller's transaction or journal entry
MaxPosts == 2

\* amounts a caller may pass, in cents: negative, zero and positive ones
Amounts == {-1, 0, 1}

\* transaction dates a caller may pass
Dates == {1, 2}

\* the end (as-of) dates a caller of Account.statement, trial_balance and
\* balance_sheet may pass, and the start and end dates a caller of
\* income_statement may pass; 0 is None
EndDates == {0, 1}

PeriodDates == {0, 1, 2}

\* the accounts whose statement a caller asks for
StatementKeys == {"Cash"}

\* account names a caller of app.post_transaction may pass to debit and to
\* credit; "Petty Cash" is not in the chart of accounts
DebitKeys == {"Cash", "Sales Revenue", "Interest Expense", "Petty Cash"}

CreditKeys == {"Sales Revenue", "Owner's Equity", "Petty Cash"}

\* the amounts, in cents, and the keys of the dicts posted in the runs with
\* depreciation: purchases of Equipment paid in Cash
PurchaseAmounts == {30, 150}

PurchaseDebitKeys == {"Equipment"}

PurchaseCreditKeys == {"Cash"}

PurchaseDicts(keys) ==
    {<<>>} \cup {<<[account |-> k, amount |-> a]>> : k \in keys, a \in PurchaseAmounts}

\* the keys of the dicts posted in the runs with a data file; "Petty Cash" is
\* not an account
SavedDebitKeys == {"Cash"}

SavedCreditKeys == {"Sales Revenue", "Petty Cash"}

\* a dict argument of app.post_transaction, in iteration order: at most one key
AppDicts(keys) ==
    {<<>>} \cup {<<[account |-> k, amount |-> a]>> : k \in keys, a \in Amounts}

-----------------------------------------------------------------------------
(* Helpers *)

RECURSIVE SumAmounts(_)
\* sum(e["amount"] for e in entries)
SumAmounts(entries) ==
    IF entries = <<>> THEN 0
    ELSE Head(entries).amount + SumAmounts(Tail(entries))

RECURSIVE SumOver(_, _)
\* the sum of f[x] over the finite set S
SumOver(S, f) ==
    IF S = {} THEN 0
    ELSE LET x == CHOOSE y \in S : TRUE
         IN  f[x] + SumOver(S \ {x}, f)

\* the value of `returned' after a call that raised, or whose return value
\* no caller reads
NoReturn == [kind |-> "none"]

\* an amount of money as a return value
Money(amount) == [kind |-> "amount", amount |-> amount]

-----------------------------------------------------------------------------
(* app.py *)

ACCOUNT_TYPES ==
    ("Asset" :> "debit") @@ ("Liability" :> "credit") @@ ("Equity" :> "credit")
    @@ ("Revenue" :> "credit") @@ ("Expense" :> "debit")

INITIAL_ACCOUNTS ==
    ("Cash" :> <<"Asset", "Current Assets">>)
    @@ ("Accounts Receivable" :> <<"Asset", "Current Assets">>)
    @@ ("Inventory" :> <<"Asset", "Current Assets">>)
    @@ ("Equipment" :> <<"Asset", "Fixed Assets">>)
    @@ ("Accumulated Depreciation" :> <<"Asset", "Fixed Assets">>)
    @@ ("Accounts Payable" :> <<"Liability", "Current Liabilities">>)
    @@ ("Wages Payable" :> <<"Liability", "Current Liabilities">>)
    @@ ("Bank Loan" :> <<"Liability", "Long Term Liabilities">>)
    @@ ("Owner's Equity" :> <<"Equity", "Owner's Equity">>)
    @@ ("Retained Earnings" :> <<"Equity", "Retained Earnings">>)
    @@ ("Sales Revenue" :> <<"Revenue", "Operating Revenue">>)
    @@ ("Service Revenue" :> <<"Revenue", "Operating Revenue">>)
    @@ ("Interest Income" :> <<"Revenue", "Other Revenue">>)
    @@ ("Cost of Goods Sold" :> <<"Expense", "Operating Expenses">>)
    @@ ("Salary Expense" :> <<"Expense", "Operating Expenses">>)
    @@ ("Rent Expense" :> <<"Expense", "Operating Expenses">>)
    @@ ("Utilities Expense" :> <<"Expense", "Operating Expenses">>)
    @@ ("Depreciation Expense" :> <<"Expense", "Operating Expenses">>)
    @@ ("Interest Expense" :> <<"Expense", "Other Expenses">>)

\* Account.__init__
Account(account_type, category) ==
    [type |-> account_type, category |-> category, debits |-> <<>>, credits |-> <<>>]

\* Account.debit: appends, whatever the amount
debit(self, amount, when) ==
    [self EXCEPT !.debits = Append(@, [amount |-> amount, date |-> when])]

\* Account.credit: appends, whatever the amount
credit(self, amount, when) ==
    [self EXCEPT !.credits = Append(@, [amount |-> amount, date |-> when])]

total_debit(self) == SumAmounts(self.debits)

total_credit(self) == SumAmounts(self.credits)

\* Account.balance without the sign flip for the credit-normal types
balance_unsigned(self) == total_debit(self) - total_credit(self)

\* Account.balance
balance(self) ==
    LET raw_balance == total_debit(self) - total_credit(self)
    IN  IF ACCOUNT_TYPES[self.type] = "credit" THEN -raw_balance ELSE raw_balance

\* the dated rows of Account.entries before sorting: debits, then credits
all_entries(self) ==
    [i \in 1..Len(self.debits) |->
        [date |-> self.debits[i].date, debit |-> self.debits[i].amount,
         credit |-> 0, type |-> "debit"]]
    \o
    [i \in 1..Len(self.credits) |->
        [date |-> self.credits[i].date, debit |-> 0,
         credit |-> self.credits[i].amount, type |-> "credit"]]

RECURSIVE insert_sorted(_, _)
\* e put into the date-sorted rows, after every row of the same or an
\* earlier date (what a stable sort does with the next element)
insert_sorted(rows, e) ==
    IF rows = <<>> THEN <<e>>
    ELSE IF rows[Len(rows)].date <= e.date THEN Append(rows, e)
    ELSE Append(insert_sorted(SubSeq(rows, 1, Len(rows) - 1), e), rows[Len(rows)])

RECURSIVE sorted_by_date(_)
\* sorted(all_entries, key=lambda x: x["date"]): stable
sorted_by_date(rows) ==
    IF rows = <<>> THEN <<>>
    ELSE insert_sorted(sorted_by_date(SubSeq(rows, 1, Len(rows) - 1)), rows[Len(rows)])

\* Account.entries
entries(self) == sorted_by_date(all_entries(self))

RECURSIVE running(_, _, _)
\* the running-balance loop of Account.statement
running(self, rows, bal) ==
    IF rows = <<>> THEN <<>>
    ELSE LET e == Head(rows)
             b == IF ACCOUNT_TYPES[self.type] = "credit"
                  THEN bal + e.credit - e.debit
                  ELSE bal + e.debit - e.credit
         IN  <<[date |-> e.date, debit |-> e.debit, credit |-> e.credit,
                type |-> e.type, balance |-> b]>> \o running(self, Tail(rows), b)

\* Account.statement with the end date excluded
statement_end_exclusive(self, start_date, end_date) ==
    LET e0 == entries(self)
        e1 == IF start_date # 0 THEN SelectSeq(e0, LAMBDA e : e.date >= start_date) ELSE e0
        e2 == IF end_date # 0 THEN SelectSeq(e1, LAMBDA e : e.date < end_date) ELSE e1
    IN  running(self, e2, 0)

\* Account.statement; a date of 0 is None
statement(self, start_date, end_date) ==
    LET e0 == entries(self)
        e1 == IF start_date # 0 THEN SelectSeq(e0, LAMBDA e : e.date >= start_date) ELSE e0
        e2 == IF end_date # 0 THEN SelectSeq(e1, LAMBDA e : e.date <= end_date) ELSE e1
    IN  running(self, e2, 0)

\* validate_transaction without the comparison of the totals
validate_transaction_sides_only(debits, credits) ==
    IF debits = <<>> \/ credits = <<>>
    THEN "ValueError: Both debit and credit entries are required"
    ELSE "ok"

\* validate_transaction: "ok" or the exception it raises
validate_transaction(debits, credits) ==
    IF debits = <<>> \/ credits = <<>>
    THEN "ValueError: Both debit and credit entries are required"
    ELSE IF SumAmounts(debits) # SumAmounts(credits)
    THEN "ValueError: Transaction not balanced"
    ELSE "ok"

RECURSIVE apply_entries(_, _, _, _)
\* one of the two for-loops of post_transaction: the entries are applied in
\* order; accounts[acct] raises KeyError at the first unknown name, and what
\* was applied before it stays applied
apply_entries(accts, lines, side, when) ==
    IF lines = <<>> THEN [accounts |-> accts, raised |-> FALSE]
    ELSE LET l == Head(lines)
         IN  IF l.account \notin DOMAIN accts
             THEN [accounts |-> accts, raised |-> TRUE]
             ELSE apply_entries(
                     [accts EXCEPT ![l.account] =
                         IF side = "debit" THEN debit(@, l.amount, when)
                         ELSE credit(@, l.amount, when)],
                     Tail(lines), side, when)

\* the history record with the id of the first transaction
new_tx_first_id(txs, debits, credits, tx_date) ==
    [id |-> 1, date |-> tx_date, amount |-> SumAmounts(debits),
     debit_entries |-> debits, credit_entries |-> credits]

\* the history record post_transaction builds
new_tx(txs, debits, credits, tx_date) ==
    [id |-> Len(txs) + 1, date |-> tx_date, amount |-> SumAmounts(debits),
     debit_entries |-> debits, credit_entries |-> credits]

\* post_transaction(debits, credits, description, transaction_date).  Its
\* last step, storage.save_data, writes the data file and leaves accounts and
\* transactions as they are; the file is not part of this state.
posting(debits, credits, tx_date) ==
    /\ steps < MaxSteps
    /\ steps' = steps + 1
    /\ posts < MaxPosts
    /\ posts' = posts + 1
    /\ call' = [op |-> "post_transaction"]
    /\ returned' = NoReturn
    /\ prev' = [op |-> call.op, result |-> result]
    /\ LET v == validate_transaction(debits, credits)
           d == apply_entries(accounts, debits, "debit", tx_date)
           c == apply_entries(d.accounts, credits, "credit", tx_date)
       IN  IF v # "ok"
           THEN /\ result' = v
                /\ UNCHANGED app_vars
           ELSE IF d.raised
           THEN /\ result' = "ValueError: Account not found"
                /\ accounts' = d.accounts
                /\ UNCHANGED transactions
           ELSE IF c.raised
           THEN /\ result' = "ValueError: Account not found"
                /\ accounts' = c.accounts
                /\ UNCHANGED transactions
           ELSE /\ result' = "ok"
                /\ accounts' = c.accounts
                /\ transactions' = <<new_tx(transactions, debits, credits, tx_date)>>
                                       \o transactions
    /\ UNCHANGED <<prog, ledger_vars, m_account, storage_vars>>

\* a call of post_transaction in the runs with reports
post_transaction(debits, credits, tx_date) ==
    /\ prog = "app"
    /\ posting(debits, credits, tx_date)

\* a call of post_transaction in the runs with depreciation
Purchase(debits, credits, tx_date) ==
    /\ prog = "depreciation"
    /\ posting(debits, credits, tx_date)

\* one row of trial_balance without the column flip for credit-normal accounts
trial_row_unflipped(account, as_of_date) ==
    LET st == statement(account, 0, as_of_date)
        bal == IF as_of_date # 0
               THEN (IF st # <<>> THEN st[Len(st)].balance ELSE 0)
               ELSE balance(account)
    IN  [debit |-> IF bal > 0 THEN bal ELSE 0, credit |-> IF bal < 0 THEN -bal ELSE 0]

\* one row of trial_balance with the balance, whatever its sign, in the
\* natural column
trial_row_signed(account, as_of_date) ==
    LET st == statement(account, 0, as_of_date)
        bal == IF as_of_date # 0
               THEN (IF st # <<>> THEN st[Len(st)].balance ELSE 0)
               ELSE balance(account)
    IN  IF ACCOUNT_TYPES[account.type] = "credit"
        THEN [debit |-> 0, credit |-> bal]
        ELSE [debit |-> bal, credit |-> 0]

\* one row of trial_balance
trial_row(account, as_of_date) ==
    LET st == statement(account, 0, as_of_date)
        bal == IF as_of_date # 0
               THEN (IF st # <<>> THEN st[Len(st)].balance ELSE 0)
               ELSE balance(account)
        debit_amt == IF bal > 0 THEN bal ELSE 0
        credit_amt == IF bal < 0 THEN -bal ELSE 0
    IN  IF ACCOUNT_TYPES[account.type] = "credit"
        THEN [debit |-> credit_amt, credit |-> debit_amt]
        ELSE [debit |-> debit_amt, credit |-> credit_amt]

\* trial_balance(as_of_date) on the accounts accts: the rows and the totals
trial_balance(accts, as_of_date) ==
    LET rows == [n \in DOMAIN accts |-> trial_row(accts[n], as_of_date)]
        total_debits == SumOver(DOMAIN accts, [n \in DOMAIN accts |-> rows[n].debit])
        total_credits == SumOver(DOMAIN accts, [n \in DOMAIN accts |-> rows[n].credit])
    IN  [kind |-> "trial_balance",
         accounts |-> rows, total_debits |-> total_debits,
         total_credits |-> total_credits,
         is_balanced |-> (total_debits = total_credits)]

\* entries[-1]["balance"] if entries else Decimal("0"), for the statement of
\* account over start_date .. end_date
period_balance(account, start_date, end_date) ==
    LET st == statement(account, start_date, end_date)
    IN  IF st # <<>> THEN st[Len(st)].balance ELSE 0

\* section_total without the test of the category
section_total_any_category(accts, typ, category, in_category, start_date, end_date) ==
    LET names == {n \in DOMAIN accts : accts[n].type = typ}
    IN  SumOver(names, [n \in names |-> period_balance(accts[n], start_date, end_date)])

\* the sum of period_balance over the accounts of accts of the given type
\* whose category is (in_category) or is not (~in_category) the given one
section_total(accts, typ, category, in_category, start_date, end_date) ==
    LET names == {n \in DOMAIN accts :
                     /\ accts[n].type = typ
                     /\ (accts[n].category = category) = in_category}
    IN  SumOver(names, [n \in names |-> period_balance(accts[n], start_date, end_date)])

\* income_statement(start_date, end_date) on the accounts accts
income_statement(accts, start_date, end_date) ==
    LET operating_revenue ==
            section_total(accts, "Revenue", "Operating Revenue", TRUE, start_date, end_date)
        other_revenue ==
            section_total(accts, "Revenue", "Operating Revenue", FALSE, start_date, end_date)
        operating_expenses ==
            section_total(accts, "Expense", "Operating Expenses", TRUE, start_date, end_date)
        other_expenses ==
            section_total(accts, "Expense", "Operating Expenses", FALSE, start_date, end_date)
        total_revenue == operating_revenue + other_revenue
        total_expenses == operating_expenses + other_expenses
        detail_names == {n \in DOMAIN accts : accts[n].type \in {"Revenue", "Expense"}}
    IN  [kind |-> "income_statement",
         period |-> [start |-> start_date, end |-> end_date],
         operating |-> [revenue |-> operating_revenue,
                        expenses |-> operating_expenses,
                        income |-> operating_revenue - operating_expenses],
         other |-> [revenue |-> other_revenue, expenses |-> other_expenses],
         totals |-> [revenue |-> total_revenue, expenses |-> total_expenses,
                     net_income |-> total_revenue - total_expenses],
         detail |-> [n \in detail_names |->
                        period_balance(accts[n], start_date, end_date)]]

\* the balance balance_sheet takes for an account
sheet_balance(account, as_of_date) ==
    IF as_of_date # 0 THEN period_balance(account, 0, as_of_date) ELSE balance(account)

\* balance_sheet with the net income left out of the equity it reports
balance_sheet_stored_equity(accts, as_of_date, today) ==
    LET of_type(typ) == {n \in DOMAIN accts : accts[n].type = typ}
        section(typ) == [n \in of_type(typ) |-> sheet_balance(accts[n], as_of_date)]
        total(typ) == SumOver(of_type(typ), section(typ))
    IN  [kind |-> "balance_sheet",
         as_of_date |-> IF as_of_date # 0 THEN as_of_date ELSE today,
         assets |-> section("Asset"),
         liabilities |-> section("Liability"),
         equity |-> section("Equity"),
         totals |-> [assets |-> total("Asset"),
                     liabilities |-> total("Liability"),
                     equity |-> total("Equity"),
                     liabilities_and_equity |-> total("Liability") + total("Equity")],
         is_balanced |-> (total("Asset") = total("Liability") + total("Equity"))]

\* balance_sheet(as_of_date) on the accounts accts, on the day today
balance_sheet(accts, as_of_date, today) ==
    LET of_type(typ) == {n \in DOMAIN accts : accts[n].type = typ}
        section(typ) == [n \in of_type(typ) |-> sheet_balance(accts[n], as_of_date)]
        total(typ) == SumOver(of_type(typ), section(typ))
        net_income == income_statement(accts, 0, as_of_date).totals.net_income
    IN  [kind |-> "balance_sheet",
         as_of_date |-> IF as_of_date # 0 THEN as_of_date ELSE today,
         assets |-> section("Asset"),
         liabilities |-> section("Liability"),
         equity |-> section("Equity"),
         totals |-> [assets |-> total("Asset"),
                     liabilities |-> total("Liability"),
                     equity |-> total("Equity") + net_income,
                     liabilities_and_equity |->
                         total("Liability") + total("Equity") + net_income],
         is_balanced |-> (total("Asset")
                            = total("Liability") + total("Equity") + net_income)]

\* the accounts after a report that sorted the lists of each account in place
after_report_sorting(accts) ==
    [n \in DOMAIN accts |->
        [accts[n] EXCEPT !.debits = sorted_by_date(@), !.credits = sorted_by_date(@)]]

\* the accounts after a call of Account.statement, trial_balance,
\* income_statement or balance_sheet: they read the lists and build new ones
after_report(accts) == accts

\* a call of one of the reading functions of app.py
AppReport(c, ret) ==
    /\ prog = "app"
    /\ steps < MaxSteps
    /\ steps' = steps + 1
    /\ call' = c
    /\ result' = "ok"
    /\ returned' = ret
    /\ prev' = [op |-> call.op, result |-> result]
    /\ accounts' = after_report(accounts)
    /\ UNCHANGED <<prog, posts, transactions, ledger_vars, m_account, storage_vars>>

AccountStatement(name, start_date, end_date) ==
    AppReport([op |-> "statement", name |-> name, start_date |-> start_date,
               end_date |-> end_date],
              [kind |-> "statement",
               rows |-> statement(accounts[name], start_date, end_date)])

TrialBalance(as_of_date) ==
    AppReport([op |-> "trial_balance", as_of_date |-> as_of_date],
              trial_balance(accounts, as_of_date))

IncomeStatement(start_date, end_date) ==
    AppReport([op |-> "income_statement", start_date |-> start_date,
               end_date |-> end_date],
              income_statement(accounts, start_date, end_date))

BalanceSheet(as_of_date, today) ==
    AppReport([op |-> "balance_sheet", as_of_date |-> as_of_date],
              balance_sheet(accounts, as_of_date, today))

\* Decimal.quantize(Decimal("0.01")) of p / q cents with the rounding of the
\* default context, ROUND_HALF_EVEN: to the nearest cent, a tie to the even one
round_half_even(p, q) ==
    LET f == p \div q
        r == p - f * q
    IN  IF 2 * r < q THEN f
        ELSE IF 2 * r > q THEN f + 1
        ELSE IF f % 2 = 0 THEN f ELSE f + 1

\* monthly_depreciation of calculate_depreciation for the Equipment balance
monthly_depreciation(equipment_cost) ==
    LET annual_depreciation == round_half_even(equipment_cost, 5)
    IN  round_half_even(annual_depreciation, 12)

\* calculate_depreciation(as_of_date) on the accounts accts, with
\* entry_date = as_of_date or date.today(): the accounts afterwards
app_calculate_depreciation(accts, entry_date) ==
    LET m == monthly_depreciation(balance(accts["Equipment"]))
    IN  [accts EXCEPT
            !["Depreciation Expense"] = debit(@, m, entry_date),
            !["Accumulated Depreciation"] = credit(@, m, entry_date)]

\* a direct call of calculate_depreciation; it returns None and saves nothing
CalculateDepreciation(as_of_date, today) ==
    /\ prog = "depreciation"
    /\ steps < MaxSteps
    /\ steps' = steps + 1
    /\ call' = [op |-> "depreciation", as_of_date |-> as_of_date]
    /\ result' = "ok"
    /\ returned' = NoReturn
    /\ prev' = [op |-> call.op, result |-> result]
    /\ accounts' = app_calculate_depreciation(
                        accounts, IF as_of_date # 0 THEN as_of_date ELSE today)
    /\ UNCHANGED <<prog, posts, transactions, ledger_vars, m_account, storage_vars>>

\* of what the /reports route hands to its template, for the accounts accts
\* left by calculate_depreciation: the trial balance.  The income statement
\* and the balance sheet it also renders are those of income_statement and
\* balance_sheet on the same accounts.
reports(accts, today) ==
    [kind |-> "reports", trial |-> trial_balance(accts, 0)]

\* GET /reports: calculate_depreciation(), then the three reports without
\* dates, on the day today
Reports(today) ==
    /\ prog = "depreciation"
    /\ steps < MaxSteps
    /\ steps' = steps + 1
    /\ call' = [op |-> "reports"]
    /\ result' = "ok"
    /\ prev' = [op |-> call.op, result |-> result]
    /\ accounts' = after_report(app_calculate_depreciation(accounts, today))
    /\ returned' = reports(app_calculate_depreciation(accounts, today), today)
    /\ UNCHANGED <<prog, posts, transactions, ledger_vars, m_account, storage_vars>>

-----------------------------------------------------------------------------
(* double_entry.py *)

\* account codes a caller of the Ledger may pass; NEW_CODE is not seeded
NEW_CODE == "9999"

LedgerCodes == {"1040", "4000", "4100", "5000", NEW_CODE}

\* line amounts a caller of the Ledger may pass, in cents
LedgerAmounts == {0, 30}

\* the months and life_years a caller of calculate_depreciation may pass
Months == {1, 60}

LifeYears == {0, 5, 10}

\* EntryLine
EntryLine(account, amount, is_debit) ==
    [account |-> account, amount |-> amount, is_debit |-> is_debit]

LedgerLines ==
    {EntryLine(c, a, d) : c \in LedgerCodes, a \in LedgerAmounts, d \in BOOLEAN}

\* a lines argument: at most two lines, a debit line first
LineLists ==
    {<<>>} \cup {<<l>> : l \in LedgerLines}
           \cup {<<l1, l2>> : l1 \in {l \in LedgerLines : l.is_debit}, l2 \in LedgerLines}

\* the codes and types a caller of create_account may pass: a seeded code
\* and a new one
CreateCodes == {"4000", NEW_CODE}

CreateTypes == {"Asset", "Expense"}

\* Ledger._seed_accounts: code and type, in seeding order (names are not read
\* by any operation modelled here)
SEED_ACCOUNTS ==
    << <<"1000", "Asset">>, <<"1010", "Asset">>, <<"1020", "Asset">>,
       <<"1030", "Asset">>, <<"1040", "Asset">>, <<"1045", "Asset">>,
       <<"2000", "Liability">>, <<"2100", "Liability">>, <<"2200", "Liability">>,
       <<"3000", "Equity">>, <<"4000", "Revenue">>, <<"4100", "Revenue">>,
       <<"5000", "Expense">>, <<"5100", "Expense">>, <<"5200", "Expense">>,
       <<"5300", "Expense">>, <<"5400", "Expense">>, <<"6000", "Expense">> >>

\* the dataclass Account of double_entry.py, freshly created
LedgerAccount(typ) == [type |-> typ, debits |-> <<>>, credits |-> <<>>]

\* Ledger.accounts after Ledger.__init__: every seeded code, no entries
seed_accounts ==
    [c \in {SEED_ACCOUNTS[i][1] : i \in 1..Len(SEED_ACCOUNTS)} |->
        LedgerAccount(SEED_ACCOUNTS[CHOOSE i \in 1..Len(SEED_ACCOUNTS) :
                                       SEED_ACCOUNTS[i][1] = c][2])]

RECURSIVE SumTagged(_)
\* sum(amt for (_id, amt) in items)
SumTagged(items) ==
    IF items = <<>> THEN 0 ELSE Head(items)[2] + SumTagged(Tail(items))

\* Account.balance of double_entry.py
Ledger_balance(self) ==
    LET total_debits == SumTagged(self.debits)
        total_credits == SumTagged(self.credits)
    IN  IF self.type \in {"Asset", "Expense"}
        THEN total_debits - total_credits
        ELSE total_credits - total_debits

\* the keys of Ledger.accounts in dict (insertion) order: the seeded codes,
\* then NEW_CODE once created
account_order(accts) ==
    SelectSeq([i \in 1..Len(SEED_ACCOUNTS) |-> SEED_ACCOUNTS[i][1]] \o <<NEW_CODE>>,
              LAMBDA c : c \in DOMAIN accts)

RECURSIVE SumLines(_, _)
\* sum(l.amount for l in lines if l.is_debit == side)
SumLines(lines, side) ==
    IF lines = <<>> THEN 0
    ELSE (IF Head(lines).is_debit = side THEN Head(lines).amount ELSE 0)
         + SumLines(Tail(lines), side)

\* the validation of Ledger.new_journal_entry: "ok" or the exception raised
validate_lines(lines) ==
    IF \E i \in 1..Len(lines) : lines[i].amount <= 0
    THEN "ValueError: All line amounts must be positive"
    ELSE IF SumLines(lines, TRUE) # SumLines(lines, FALSE)
    THEN "ValueError: Journal entry unbalanced"
    ELSE "ok"

\* Ledger.new_journal_entry on the ledger L = [accounts, journal]: the
\* ledger afterwards, with the outcome.  The uuid-derived id is modelled as
\* a fresh one: the entry's index in the journal.
new_journal_entry(L, lines) ==
    LET v == validate_lines(lines)
    IN  IF v # "ok"
        THEN [accounts |-> L.accounts, journal |-> L.journal, result |-> v]
        ELSE [accounts |-> L.accounts,
              journal |-> Append(L.journal, [lines |-> lines, posted |-> FALSE]),
              result |-> "ok"]

RECURSIVE apply_lines(_, _, _)
\* the for-loop of Ledger.post_entry: get_account raises KeyError at the
\* first line whose account is not defined; the lines before it stay applied
apply_lines(accts, je_id, lines) ==
    IF lines = <<>> THEN [accounts |-> accts, raised |-> FALSE]
    ELSE LET l == Head(lines)
         IN  IF l.account \notin DOMAIN accts
             THEN [accounts |-> accts, raised |-> TRUE]
             ELSE apply_lines(
                     [accts EXCEPT ![l.account] =
                         IF l.is_debit
                         THEN [@ EXCEPT !.debits = Append(@, <<je_id, l.amount>>)]
                         ELSE [@ EXCEPT !.credits = Append(@, <<je_id, l.amount>>)]],
                     je_id, Tail(lines))

\* Ledger.post_entry without the test of the posted flag
post_entry_unguarded(L, je_id) ==
    IF je_id \notin DOMAIN L.journal
    THEN [accounts |-> L.accounts, journal |-> L.journal,
          result |-> "KeyError: Journal entry not found"]
    ELSE LET a == apply_lines(L.accounts, je_id, L.journal[je_id].lines)
         IN  IF a.raised
             THEN [accounts |-> a.accounts, journal |-> L.journal,
                   result |-> "KeyError: Account not defined"]
             ELSE [accounts |-> a.accounts,
                   journal |-> [L.journal EXCEPT ![je_id].posted = TRUE],
                   result |-> "ok"]

\* Ledger.post_entry on the ledger L
post_entry(L, je_id) ==
    IF je_id \notin DOMAIN L.journal
    THEN [accounts |-> L.accounts, journal |-> L.journal,
          result |-> "KeyError: Journal entry not found"]
    ELSE IF L.journal[je_id].posted
    THEN [accounts |-> L.accounts, journal |-> L.journal,
          result |-> "ValueError: Entry already posted"]
    ELSE LET a == apply_lines(L.accounts, je_id, L.journal[je_id].lines)
         IN  IF a.raised
             THEN [accounts |-> a.accounts, journal |-> L.journal,
                   result |-> "KeyError: Account not defined"]
             ELSE [accounts |-> a.accounts,
                   journal |-> [L.journal EXCEPT ![je_id].posted = TRUE],
                   result |-> "ok"]

\* Ledger.post_transaction on the ledger L: new_journal_entry, then post_entry
Ledger_post_transaction(L, lines) ==
    LET n == new_journal_entry(L, lines)
    IN  IF n.result # "ok" THEN n ELSE post_entry(n, Len(n.journal))

RECURSIVE close_expenses(_, _)
\* the second loop of Ledger.close_books over the codes still to visit: each
\* Expense account with a non-zero balance is closed to Equity; an exception
\* of post_transaction ends the loop
close_expenses(L, codes) ==
    IF codes = <<>> \/ L.result # "ok" THEN L
    ELSE LET code == Head(codes)
             acct == L.accounts[code]
             amt == Ledger_balance(acct)
         IN  IF acct.type = "Expense" /\ amt # 0
             THEN close_expenses(
                     Ledger_post_transaction(L,
                         <<EntryLine("3000", amt, TRUE), EntryLine(code, amt, FALSE)>>),
                     Tail(codes))
             ELSE close_expenses(L, Tail(codes))

\* Ledger.close_books without the test that skips a zero revenue balance
close_books_unskipped(L) ==
    LET total_revenue ==
            IF "4000" \in DOMAIN L.accounts THEN Ledger_balance(L.accounts["4000"]) ELSE 0
        L0 == [accounts |-> L.accounts, journal |-> L.journal, result |-> "ok"]
        L1 == Ledger_post_transaction(L0,
                 <<EntryLine("4000", total_revenue, TRUE),
                   EntryLine("3000", total_revenue, FALSE)>>)
    IN  close_expenses(L1, account_order(L1.accounts))

\* Ledger.close_books on the ledger L
close_books(L) ==
    LET total_revenue ==
            IF "4000" \in DOMAIN L.accounts THEN Ledger_balance(L.accounts["4000"]) ELSE 0
        L0 == [accounts |-> L.accounts, journal |-> L.journal, result |-> "ok"]
        L1 == IF total_revenue # 0
              THEN Ledger_post_transaction(L0,
                      <<EntryLine("4000", total_revenue, TRUE),
                        EntryLine("3000", total_revenue, FALSE)>>)
              ELSE L0
    IN  close_expenses(L1, account_order(L1.accounts))

\* the net_income Ledger.close_books computes before it posts, and returns:
\* the balance of account 4000 minus the balances of the Expense accounts
close_books_net_income(L) ==
    LET total_revenue ==
            IF "4000" \in DOMAIN L.accounts THEN Ledger_balance(L.accounts["4000"]) ELSE 0
        expense_codes == {c \in DOMAIN L.accounts : L.accounts[c].type = "Expense"}
        total_expense ==
            SumOver(expense_codes,
                    [c \in expense_codes |-> Ledger_balance(L.accounts[c])])
    IN  total_revenue - total_expense

\* the quotient rounded down instead of half-up
quantize_down(p, q) == p \div q

\* (p / q).quantize(CENT, ROUND_HALF_UP) for p >= 0 and q > 0, in cents
quantize_half_up(p, q) == (2 * p + q) \div (2 * q)

\* Ledger.calculate_depreciation(months=months, life_years=life_years) with
\* the default account codes and salvage on the ledger L: the ledger
\* afterwards, the outcome, and the amount returned
calculate_depreciation(L, months, life_years) ==
    LET L0 == [accounts |-> L.accounts, journal |-> L.journal, result |-> "ok", amount |-> 0]
    IN  IF "1040" \notin DOMAIN L.accounts \/ "1045" \notin DOMAIN L.accounts
        THEN [L0 EXCEPT !.result = "KeyError: Account not defined"]
        ELSE LET equip == L.accounts["1040"]
                 cost == IF equip.type = "Asset" THEN Ledger_balance(equip) ELSE 0
                 total_months == life_years * 12
                 depreciable == cost - 0
             IN  IF total_months <= 0
                 THEN [L0 EXCEPT !.result = "ValueError: life_years must be > 0"]
                 ELSE IF depreciable <= 0
                 THEN L0
                 ELSE LET monthly == quantize_half_up(depreciable, total_months)
                          amt == monthly * months
                          p == Ledger_post_transaction(L,
                                  <<EntryLine("5300", amt, TRUE),
                                    EntryLine("1045", amt, FALSE)>>)
                      IN  IF amt > 0
                          THEN [accounts |-> p.accounts, journal |-> p.journal,
                                result |-> p.result, amount |-> amt]
                          ELSE [L0 EXCEPT !.amount = amt]

\* the sample transactions of the demo scenario of run_app, in cents
DEMO_TRANSACTIONS ==
    << <<EntryLine("1000", 2000000, TRUE), EntryLine("3000", 2000000, FALSE)>>,
       <<EntryLine("1040", 800000, TRUE), EntryLine("1000", 800000, FALSE)>>,
       <<EntryLine("1030", 400000, TRUE), EntryLine("2000", 400000, FALSE)>>,
       <<EntryLine("1000", 500000, TRUE), EntryLine("2200", 500000, FALSE)>>,
       <<EntryLine("5100", 120000, TRUE), EntryLine("2100", 120000, FALSE)>>,
       <<EntryLine("1020", 600000, TRUE), EntryLine("4000", 600000, FALSE)>>,
       <<EntryLine("5000", 250000, TRUE), EntryLine("1030", 250000, FALSE)>> >>

RECURSIVE post_all(_, _)
\* consecutive Ledger.post_transaction calls; the first exception ends them
post_all(L, txs) ==
    IF txs = <<>> \/ L.result # "ok" THEN L
    ELSE post_all(Ledger_post_transaction(L, Head(txs)), Tail(txs))

\* menu choice 16 of run_app: a fresh Ledger, the sample transactions, then
\* one year of depreciation
demo_scenario ==
    LET fresh == [accounts |-> seed_accounts, journal |-> <<>>, result |-> "ok"]
        posted == post_all(fresh, DEMO_TRANSACTIONS)
    IN  IF posted.result # "ok" THEN posted
        ELSE calculate_depreciation(posted, 12, 5)

\* Ledger.create_account without the test for an existing code: the account
\* is built anew
create_account_replacing(L, code, typ) ==
    [accounts |-> [c \in DOMAIN L.accounts \cup {code} |->
                      IF c = code THEN LedgerAccount(typ) ELSE L.accounts[c]],
     journal |-> L.journal, result |-> "ok"]

\* Ledger.create_account on the ledger L
create_account(L, code, typ) ==
    IF code \in DOMAIN L.accounts
    THEN [accounts |-> L.accounts, journal |-> L.journal, result |-> "ok"]
    ELSE [accounts |-> L.accounts @@ (code :> LedgerAccount(typ)),
          journal |-> L.journal, result |-> "ok"]

\* one row of Ledger.trial_balance
Ledger_trial_row(acct) ==
    LET bal == Ledger_balance(acct)
    IN  IF acct.type \in {"Asset", "Expense"}
        THEN (IF bal >= 0 THEN [debit |-> bal, credit |-> 0]
              ELSE [debit |-> 0, credit |-> -bal])
        ELSE (IF bal >= 0 THEN [debit |-> 0, credit |-> bal]
              ELSE [debit |-> -bal, credit |-> 0])

\* Ledger.trial_balance: rows, total_debit, total_credit
Ledger_trial_balance(accts) ==
    LET rows == [c \in DOMAIN accts |-> Ledger_trial_row(accts[c])]
    IN  [rows |-> rows,
         total_debit |-> SumOver(DOMAIN accts, [c \in DOMAIN accts |-> rows[c].debit]),
         total_credit |-> SumOver(DOMAIN accts, [c \in DOMAIN accts |-> rows[c].credit])]

\* the ledger the console application holds
TheLedger == [accounts |-> ledger_accounts, journal |-> journal]

\* a call of a Ledger method: the ledger and the outcome afterwards
LedgerCall(c, after, ret) ==
    /\ prog = "ledger"
    /\ steps < MaxSteps
    /\ steps' = steps + 1
    /\ call' = c
    /\ result' = after.result
    /\ returned' = IF after.result = "ok" THEN ret ELSE NoReturn
    /\ prev' = [op |-> call.op, result |-> result]
    /\ ledger_accounts' = after.accounts
    /\ journal' = after.journal
    /\ UNCHANGED <<prog, app_vars, m_account, storage_vars>>

LedgerNewJournalEntry(lines) ==
    /\ posts < MaxPosts
    /\ posts' = posts + 1
    /\ LedgerCall([op |-> "new_journal_entry"],
               new_journal_entry(TheLedger, lines), NoReturn)

LedgerPostEntry(je_id) ==
    /\ UNCHANGED posts
    /\ LedgerCall([op |-> "post_entry", je_id |-> je_id], post_entry(TheLedger, je_id),
               NoReturn)

LedgerPostTransaction(lines) ==
    /\ posts < MaxPosts
    /\ posts' = posts + 1
    /\ LedgerCall([op |-> "post_transaction"],
               Ledger_post_transaction(TheLedger, lines), NoReturn)

LedgerCloseBooks ==
    /\ UNCHANGED posts
    /\ LedgerCall([op |-> "close_books"], close_books(TheLedger),
               Money(close_books_net_income(TheLedger)))

LedgerCalculateDepreciation(months, life_years) ==
    LET after == calculate_depreciation(TheLedger, months, life_years)
    IN  /\ UNCHANGED posts
        /\ LedgerCall([op |-> "calculate_depreciation", months |-> months,
                    life_years |-> life_years],
                   after, Money(after.amount))

\* The demo replaces the Ledger object by a new one; these variables follow
\* one Ledger object, so the step is taken on an object that is still new.
LedgerDemo ==
    /\ ledger_accounts = seed_accounts
    /\ journal = <<>>
    /\ UNCHANGED posts
    /\ LedgerCall([op |-> "demo"], demo_scenario, NoReturn)

LedgerCreateAccount(code, typ) ==
    /\ UNCHANGED posts
    /\ LedgerCall([op |-> "create_account", code |-> code, type |-> typ],
               create_account(TheLedger, code, typ), NoReturn)

-----------------------------------------------------------------------------
(* models.py *)

\* Account.__init__ of models.py
ModelsAccount(account_type) == [type |-> account_type, debits |-> <<>>, credits |-> <<>>]

\* Account.debit of models.py: appends, whatever the amount
models_debit(self, amount) == [self EXCEPT !.debits = Append(@, amount)]

\* Account.credit of models.py: appends, whatever the amount
models_credit(self, amount) == [self EXCEPT !.credits = Append(@, amount)]

RECURSIVE SumSeq(_)
\* sum(items, Decimal('0'))
SumSeq(items) == IF items = <<>> THEN 0 ELSE Head(items) + SumSeq(Tail(items))

\* Account.raw_balance of models.py
models_raw_balance(self) == SumSeq(self.debits) - SumSeq(self.credits)

\* Account.balance of models.py
models_balance(self) ==
    IF ACCOUNT_TYPES[self.type] = "credit"
    THEN -models_raw_balance(self)
    ELSE models_raw_balance(self)

\* Account.validate_transaction of models.py: "ok" or the exception raised
models_validate_transaction(is_debit, amount) ==
    IF amount <= 0 THEN "ValueError: Amount must be positive" ELSE "ok"

\* a call of a method of the models.py Account
ModelsCall(c, res, after) ==
    /\ prog = "models"
    /\ steps < MaxSteps
    /\ steps' = steps + 1
    /\ call' = c
    /\ result' = res
    /\ returned' = NoReturn
    /\ prev' = [op |-> call.op, result |-> result]
    /\ m_account' = after
    /\ UNCHANGED <<prog, posts, app_vars, ledger_vars, storage_vars>>

ModelsDebit(amount) ==
    ModelsCall([op |-> "debit", amount |-> amount], "ok", models_debit(m_account, amount))

ModelsCredit(amount) ==
    ModelsCall([op |-> "credit", amount |-> amount], "ok", models_credit(m_account, amount))

ModelsValidate(is_debit, amount) ==
    ModelsCall([op |-> "validate_transaction", is_debit |-> is_debit, amount |-> amount],
               models_validate_transaction(is_debit, amount), m_account)

-----------------------------------------------------------------------------
(* storage.py, and app.py as its caller *)

DIGITS == <<"0", "1", "2", "3", "4", "5", "6", "7", "8", "9">>

digit_char(n) == DIGITS[n + 1]

is_digit(c) == \E i \in 1..Len(DIGITS) : DIGITS[i] = c

digit_value(c) == (CHOOSE i \in 1..Len(DIGITS) : DIGITS[i] = c) - 1

RECURSIVE nat_str(_)
\* the decimal digits of a natural number
nat_str(n) ==
    IF n < 10 THEN <<digit_char(n)>>
    ELSE Append(nat_str(n \div 10), digit_char(n % 10))

RECURSIVE digits_value(_)
\* the natural number a non-empty string of digits denotes
digits_value(chars) ==
    IF Len(chars) = 1 THEN digit_value(chars[1])
    ELSE digits_value(SubSeq(chars, 1, Len(chars) - 1)) * 10
         + digit_value(chars[Len(chars)])

\* str(obj) without the sign
decimal_str_unsigned(a) ==
    LET abs == IF a < 0 THEN -a ELSE a
    IN  nat_str(abs \div 100)
        \o <<".", digit_char((abs % 100) \div 10), digit_char(abs % 10)>>

\* DataEncoder.default on a Decimal: str(obj), for an amount of a cents
decimal_str(a) ==
    LET abs == IF a < 0 THEN -a ELSE a
    IN  (IF a < 0 THEN <<"-">> ELSE <<>>)
        \o nat_str(abs \div 100)
        \o <<".", digit_char((abs % 100) \div 10), digit_char(abs % 10)>>

\* Decimal(s) for a string s: the amount in cents, or not ok
\* (decimal.InvalidOperation) unless s is [-]digits.dd
parse_decimal(chars) ==
    LET neg == chars # <<>> /\ chars[1] = "-"
        body == IF neg THEN Tail(chars) ELSE chars
        n == Len(body)
        well_formed ==
            /\ n >= 4
            /\ body[n - 2] = "."
            /\ \A i \in (1..n) \ {n - 2} : is_digit(body[i])
        abs == digits_value(SubSeq(body, 1, n - 3)) * 100
               + digits_value(SubSeq(body, n - 1, n))
    IN  IF well_formed
        THEN [ok |-> TRUE, value |-> IF neg THEN -abs ELSE abs]
        ELSE [ok |-> FALSE, value |-> 0]

\* date.isoformat(): day d (1..9) is the d-th of January 2024
isoformat(d) == <<"2", "0", "2", "4", "-", "0", "1", "-", "0", digit_char(d)>>

\* datetime.fromisoformat(s).date(): the day, or not ok (ValueError)
fromisoformat(chars) ==
    IF /\ Len(chars) = 10
       /\ SubSeq(chars, 1, 9) = SubSeq(isoformat(1), 1, 9)
       /\ is_digit(chars[10]) /\ chars[10] # "0"
    THEN [ok |-> TRUE, value |-> digit_value(chars[10])]
    ELSE [ok |-> FALSE, value |-> 0]

\* a Decimal and a str as values of a transaction record, which holds
\* either after a reload
Dec(a) == [dec |-> a]

Str(chars) == [str |-> chars]

\* json.dump with DataEncoder on an amount of a transaction record
encode_amount(v) == IF "dec" \in DOMAIN v THEN Str(decimal_str(v.dec)) ELSE v

\* the dict save_data writes for one list of account entries
save_entries(list) ==
    [i \in 1..Len(list) |->
        [amount |-> decimal_str(list[i].amount), date |-> isoformat(list[i].date)]]

\* the JSON save_data writes for the transactions list
save_transactions(txs) ==
    [i \in 1..Len(txs) |->
        [id |-> txs[i].id,
         date |-> isoformat(txs[i].date),
         amount |-> decimal_str(txs[i].amount),
         debit_entries |->
            [j \in 1..Len(txs[i].debit_entries) |->
                [account |-> txs[i].debit_entries[j].account,
                 amount |-> encode_amount(txs[i].debit_entries[j].amount)]],
         credit_entries |->
            [j \in 1..Len(txs[i].credit_entries) |->
                [account |-> txs[i].credit_entries[j].account,
                 amount |-> encode_amount(txs[i].credit_entries[j].amount)]]]]

\* save_data(accounts, transactions): the content of DATA_FILE afterwards
\* (the backup of the previous file is not read by any operation)
save_data(accts, txs) ==
    [kind |-> "json",
     data |-> [accounts |->
                  [n \in DOMAIN accts |->
                      [name |-> n, type |-> accts[n].type,
                       category |-> accts[n].category,
                       debits |-> save_entries(accts[n].debits),
                       credits |-> save_entries(accts[n].credits)]],
               transactions |-> save_transactions(txs)]]

\* an empty accounts dict
NO_ACCOUNTS == [n \in {} |-> Account("Asset", "")]

\* the exceptions load_data's except clause names
CAUGHT == {"json.JSONDecodeError", "KeyError", "TypeError"}

\* the exception the arguments of one account.debit / account.credit call of
\* load_data raise, "" if none: Decimal(entry["amount"]) is evaluated before
\* datetime.fromisoformat(entry["date"])
entry_exception(e) ==
    IF ~parse_decimal(e.amount).ok THEN "decimal.InvalidOperation"
    ELSE IF ~fromisoformat(e.date).ok THEN "ValueError: Invalid isoformat string"
    ELSE ""

\* the exception of the first entry of the list that raises one, "" if none
entries_exception(list) ==
    LET failing == {i \in 1..Len(list) : entry_exception(list[i]) # ""}
    IN  IF failing = {} THEN ""
        ELSE entry_exception(list[CHOOSE i \in failing : \A j \in failing : i <= j])

\* the entries a for-loop of load_data appends to the account
load_entries(list) ==
    [i \in 1..Len(list) |->
        [amount |-> parse_decimal(list[i].amount).value,
         date |-> fromisoformat(list[i].date).value]]

\* the exception the body of load_data's loop over the accounts raises for
\* one account, "" if none: Account.__init__ rejects an unknown type
account_exception(acc_data) ==
    IF {"name", "type", "category"} \ DOMAIN acc_data # {} THEN "KeyError"
    ELSE IF acc_data.type \notin DOMAIN ACCOUNT_TYPES
    THEN "ValueError: Invalid account type"
    ELSE IF "debits" \notin DOMAIN acc_data THEN "KeyError"
    ELSE IF entries_exception(acc_data.debits) # "" THEN entries_exception(acc_data.debits)
    ELSE IF "credits" \notin DOMAIN acc_data THEN "KeyError"
    ELSE entries_exception(acc_data.credits)

\* the Account the body of load_data's loop over the accounts builds
load_account(acc_data) ==
    [type |-> acc_data.type, category |-> acc_data.category,
     debits |-> load_entries(acc_data.debits),
     credits |-> load_entries(acc_data.credits)]

\* the exception the loop over the transactions raises for one of them
tx_exception(tx) ==
    IF ~parse_decimal(tx.amount).ok THEN "decimal.InvalidOperation"
    ELSE IF ~fromisoformat(tx.date).ok THEN "ValueError: Invalid isoformat string"
    ELSE ""

\* the loop over the transactions: amount and date are converted back, the
\* amounts of the debit and credit entries stay the strings of the file
load_transactions(txs) ==
    [i \in 1..Len(txs) |->
        [txs[i] EXCEPT !.amount = parse_decimal(@).value,
                       !.date = fromisoformat(@).value]]

\* the first exception raised inside load_data's try block, "" if none.  The
\* files of this model have at most one defect, so that the account that
\* raises does not depend on the order of the dict.
load_exception(file) ==
    IF file.kind = "invalid_json" THEN "json.JSONDecodeError"
    ELSE IF file.kind = "json_array" THEN "TypeError"
    ELSE IF "accounts" \notin DOMAIN file.data THEN "KeyError"
    ELSE LET accts == file.data.accounts
             failing == {n \in DOMAIN accts : account_exception(accts[n]) # ""}
         IN  IF failing # {}
             THEN account_exception(accts[CHOOSE n \in failing : TRUE])
             ELSE IF "transactions" \notin DOMAIN file.data THEN "KeyError"
             ELSE LET txs == file.data.transactions
                      bad == {i \in 1..Len(txs) : tx_exception(txs[i]) # ""}
                  IN  IF bad = {} THEN ""
                      ELSE tx_exception(txs[CHOOSE i \in bad : \A j \in bad : i <= j])

\* load_data(): the pair it returns, or the exception it lets through
load_data(file) ==
    IF file.kind = "missing"
    THEN [accounts |-> NO_ACCOUNTS, transactions |-> <<>>, raised |-> ""]
    ELSE LET exc == load_exception(file)
         IN  IF exc = ""
             THEN [accounts |-> [n \in DOMAIN file.data.accounts |->
                                    load_account(file.data.accounts[n])],
                   transactions |-> load_transactions(file.data.transactions),
                   raised |-> ""]
             ELSE IF exc \in CAUGHT
             THEN [accounts |-> NO_ACCOUNTS, transactions |-> <<>>, raised |-> ""]
             ELSE [accounts |-> NO_ACCOUNTS, transactions |-> <<>>, raised |-> exc]

\* the accounts module initialisation builds from INITIAL_ACCOUNTS
default_accounts ==
    [n \in DOMAIN INITIAL_ACCOUNTS |->
        Account(INITIAL_ACCOUNTS[n][1], INITIAL_ACCOUNTS[n][2])]

\* the debit_entries / credit_entries post_transaction records: Decimals
tag_amounts(lines) ==
    [i \in 1..Len(lines) |->
        [account |-> lines[i].account, amount |-> Dec(lines[i].amount)]]

\* the application process is up: its last start did not raise
process_up == ~(call.op = "startup" /\ result # "ok")

\* app.post_transaction in a process with a data file: on success its last
\* step, storage.save_data, rewrites the file; a call that raises saves nothing
PostAndSave(debits, credits, tx_date) ==
    /\ prog = "storage"
    /\ process_up
    /\ steps < MaxSteps
    /\ steps' = steps + 1
    /\ posts < MaxPosts
    /\ posts' = posts + 1
    /\ call' = [op |-> "post_and_save"]
    /\ returned' = NoReturn
    /\ prev' = [op |-> call.op, result |-> result]
    /\ LET v == validate_transaction(debits, credits)
           d == apply_entries(st_accounts, debits, "debit", tx_date)
           c == apply_entries(d.accounts, credits, "credit", tx_date)
           tx == [new_tx(st_transactions, debits, credits, tx_date)
                    EXCEPT !.debit_entries = tag_amounts(debits),
                           !.credit_entries = tag_amounts(credits)]
       IN  IF v # "ok"
           THEN /\ result' = v
                /\ UNCHANGED storage_vars
           ELSE IF d.raised \/ c.raised
           THEN /\ result' = "ValueError: Account not found"
                /\ st_accounts' = c.accounts
                /\ UNCHANGED <<st_transactions, data_file>>
           ELSE /\ result' = "ok"
                /\ st_accounts' = c.accounts
                /\ st_transactions' = <<tx>> \o st_transactions
                /\ data_file' = save_data(c.accounts, <<tx>> \o st_transactions)
    /\ UNCHANGED <<prog, app_vars, ledger_vars, m_account>>

\* the defects something other than save_data leaves in the data file
DEFECTS ==
    {"invalid_json", "json_array", "missing_key", "bad_type", "bad_amount", "bad_date"}

\* the account and the transaction the defect is put in
DEFECT_ACCOUNT == "Cash"

\* the data file with one defect
with_defect(file, defect) ==
    CASE defect = "invalid_json" -> [kind |-> "invalid_json"]
      [] defect = "json_array" -> [kind |-> "json_array"]
      [] defect = "missing_key" ->
            [kind |-> "json", data |-> [accounts |-> file.data.accounts]]
      [] defect = "bad_type" ->
            [file EXCEPT !.data.accounts[DEFECT_ACCOUNT].type = "Bogus"]
      [] defect = "bad_amount" ->
            [file EXCEPT !.data.accounts[DEFECT_ACCOUNT].debits[1].amount = <<"a", "b", "c">>]
      [] defect = "bad_date" ->
            [file EXCEPT !.data.transactions[1].date = <<"x", "x">>]

\* the environment damages a data file that save_data wrote
CorruptFile(defect) ==
    /\ prog = "storage"
    /\ steps < MaxSteps
    /\ steps' = steps + 1
    /\ data_file.kind = "json"
    /\ load_exception(data_file) = ""
    /\ "transactions" \in DOMAIN data_file.data
    /\ defect = "bad_amount" => data_file.data.accounts[DEFECT_ACCOUNT].debits # <<>>
    /\ defect = "bad_date" => data_file.data.transactions # <<>>
    /\ data_file' = with_defect(data_file, defect)
    /\ call' = [op |-> "corrupt_file", defect |-> defect]
    /\ result' = "ok"
    /\ returned' = NoReturn
    /\ prev' = [op |-> call.op, result |-> result]
    /\ UNCHANGED <<prog, posts, app_vars, ledger_vars, m_account,
                   st_accounts, st_transactions>>

\* the application is started (again): app.py's module initialisation loads
\* the data file and seeds the default accounts if it got no account; an
\* exception load_data lets through ends the start
Startup ==
    /\ prog = "storage"
    /\ steps < MaxSteps
    /\ steps' = steps + 1
    /\ call' = [op |-> "startup"]
    /\ prev' = [op |-> call.op, result |-> result]
    /\ LET loaded == load_data(data_file)
       IN  IF loaded.raised # ""
           THEN /\ result' = loaded.raised
                /\ returned' = NoReturn
                /\ st_accounts' = NO_ACCOUNTS
                /\ st_transactions' = <<>>
           ELSE /\ result' = "ok"
                /\ returned' = [kind |-> "load_data", accounts |-> loaded.accounts,
                                transactions |-> loaded.transactions]
                /\ IF loaded.accounts = NO_ACCOUNTS
                   THEN /\ st_accounts' = default_accounts
                        /\ st_transactions' = <<>>
                   ELSE /\ st_accounts' = loaded.accounts
                        /\ st_transactions' = loaded.transactions
    /\ UNCHANGED <<prog, posts, app_vars, ledger_vars, m_account, data_file>>

-----------------------------------------------------------------------------
(* The specification *)

Init ==
    /\ prog \in {"app", "depreciation", "ledger", "models", "storage"}
    /\ steps = 0
    /\ posts = 0
    /\ call = [op |-> "none"]
    /\ result = "ok"
    /\ returned = NoReturn
    /\ prev = [op |-> "none", result |-> "ok"]
    /\ accounts = [n \in DOMAIN INITIAL_ACCOUNTS |->
                      Account(INITIAL_ACCOUNTS[n][1], INITIAL_ACCOUNTS[n][2])]
    /\ transactions = <<>>
    /\ ledger_accounts = seed_accounts
    /\ journal = <<>>
    /\ \E t \in DOMAIN ACCOUNT_TYPES :
          /\ prog # "models" => t = "Asset"
          /\ m_account = ModelsAccount(t)
    /\ st_accounts = default_accounts
    /\ st_transactions = <<>>
    /\ data_file = [kind |-> "missing"]

Next ==
    \/ \E d \in AppDicts(DebitKeys), c \in AppDicts(CreditKeys), t \in Dates :
          post_transaction(d, c, t)
    \/ \E d \in PurchaseDicts(PurchaseDebitKeys), c \in PurchaseDicts(PurchaseCreditKeys),
          t \in Dates :
          Purchase(d, c, t)
    \/ \E d \in EndDates, today \in Dates : CalculateDepreciation(d, today)
    \/ \E today \in Dates : Reports(today)
    \/ \E n \in StatementKeys, e \in EndDates : AccountStatement(n, 0, e)
    \/ \E d \in EndDates : TrialBalance(d)
    \/ \E s \in PeriodDates, e \in PeriodDates : IncomeStatement(s, e)
    \/ \E d \in EndDates, today \in Dates : BalanceSheet(d, today)
    \/ \E lines \in LineLists : LedgerNewJournalEntry(lines)
    \/ \E id \in 1..(Len(journal) + 1) : LedgerPostEntry(id)
    \/ \E lines \in LineLists : LedgerPostTransaction(lines)
    \/ LedgerCloseBooks
    \/ LedgerDemo
    \/ \E m \in Months, y \in LifeYears : LedgerCalculateDepreciation(m, y)
    \/ \E code \in CreateCodes, typ \in CreateTypes : LedgerCreateAccount(code, typ)
    \/ \E a \in Amounts : ModelsDebit(a)
    \/ \E a \in Amounts : ModelsCredit(a)
    \/ \E d \in BOOLEAN, a \in Amounts : ModelsValidate(d, a)
    \/ \E d \in AppDicts(SavedDebitKeys), c \in AppDicts(SavedCreditKeys), t \in Dates :
          PostAndSave(d, c, t)
    \/ \E defect \in DEFECTS : CorruptFile(defect)
    \/ Startup

Spec == Init /\ [][Next]_vars

-----------------------------------------------------------------------------
(* Claims *)

\* the exceptions raised by the validation steps, before anything is applied
ValidationErrors ==
    {"ValueError: Both debit and credit entries are required",
     "ValueError: Transaction not balanced",
     "ValueError: All line amounts must be positive",
     "ValueError: Journal entry unbalanced"}

\* the sum of the amounts f[i] of a list given as a function on 1..n
NetTotal(f) == SumOver(DOMAIN f, f)

\* C1: app.post_transaction is all-or-nothing: a call that raises leaves
\* every account's debit and credit list and the transactions history exactly
\* as they were before the call.
C1_PostIsAllOrNothing ==
    [][(prog = "app" /\ call'.op = "post_transaction" /\ result' # "ok")
        => (accounts' = accounts /\ transactions' = transactions)]_vars

\* C2: Ledger.post_transaction with balanced, positive lines of which one
\* names an undefined account code fails and afterwards no account's debits
\* or credits list has changed and the journal holds no entry for the attempt.
C2_UnknownCodeLeavesNoTrace ==
    [][(prog = "ledger" /\ call'.op = "post_transaction"
        /\ result' = "KeyError: Account not defined")
        => (ledger_accounts' = ledger_accounts /\ journal' = journal)]_vars

\* every transaction app.py has recorded has equal debit and credit totals
AppRecordedBalanced ==
    \A i \in 1..Len(transactions) :
        SumAmounts(transactions[i].debit_entries)
            = SumAmounts(transactions[i].credit_entries)

\* every entry in the Ledger's journal has equal debit and credit totals
JournalBalanced ==
    \A id \in DOMAIN journal :
        SumLines(journal[id].lines, TRUE) = SumLines(journal[id].lines, FALSE)

\* C3: a posting whose debit total differs from its credit total is rejected
\* with a validation error, in app.post_transaction and in
\* Ledger.post_transaction: no transaction or journal entry with unequal
\* totals is ever recorded, and a posting call that ends in a validation
\* error leaves every account (hence every balance) and the history
\* unchanged.
C3_MismatchRejected ==
    /\ [](AppRecordedBalanced /\ JournalBalanced)
    /\ [][(call'.op \in {"post_transaction", "new_journal_entry"}
            /\ result' \in ValidationErrors)
            => (accounts' = accounts /\ transactions' = transactions
                /\ ledger_accounts' = ledger_accounts /\ journal' = journal)]_vars

\* C3 witness: a posting with unequal totals has just been rejected
C3_Witness ==
    /\ call.op = "post_transaction"
    /\ result \in {"ValueError: Transaction not balanced",
                   "ValueError: Journal entry unbalanced"}

\* app.trial_balance reports is_balanced, without and with an as-of date
AppTrialBalanced(accts) ==
    \A d \in {0} \cup Dates : trial_balance(accts, d).is_balanced

\* Ledger.trial_balance returns total_debit == total_credit
LedgerTrialBalanced(accts) ==
    LET tb == Ledger_trial_balance(accts)
    IN  tb.total_debit = tb.total_credit

\* C4: starting from the freshly seeded ledger, as long as every call
\* succeeds the trial balance's debit-column total equals its credit-column
\* total: it does in the seeded state, and every call that succeeds in a
\* state where it does leaves it so (app.trial_balance and
\* Ledger.trial_balance).
C4_TrialBalanceBalanced ==
    /\ AppTrialBalanced(accounts) /\ LedgerTrialBalanced(ledger_accounts)
    /\ [][(result' = "ok" /\ AppTrialBalanced(accounts)
                          /\ LedgerTrialBalanced(ledger_accounts))
            => (AppTrialBalanced(accounts') /\ LedgerTrialBalanced(ledger_accounts'))]_vars

\* C4 witness: two postings have succeeded and the columns are not empty
C4_Witness ==
    /\ steps = 2
    /\ result = "ok"
    /\ call.op = "post_transaction"
    /\ \/ /\ prog = "app"
          /\ Len(transactions) = 2
          /\ trial_balance(accounts, 0).total_debits > 0
          /\ AppTrialBalanced(accounts)
       \/ /\ prog = "ledger"
          /\ Len(journal) = 2
          /\ \A id \in DOMAIN journal : journal[id].posted
          /\ Ledger_trial_balance(ledger_accounts).total_debit > 0
          /\ LedgerTrialBalanced(ledger_accounts)

\* debits minus credits, negated for the credit-normal types
SignedNet(type, debit_amounts, credit_amounts) ==
    IF type \in {"Asset", "Expense"}
    THEN NetTotal(debit_amounts) - NetTotal(credit_amounts)
    ELSE NetTotal(credit_amounts) - NetTotal(debit_amounts)

\* C5: in every reachable state the balance of every account (app.Account,
\* the Ledger's Account, models.Account) equals the sum of the debit entries
\* now in its list minus the sum of its credit entries for Asset and Expense
\* accounts, and the negation of that for Liability, Equity and Revenue.
C5_BalanceIsSignedNet ==
    /\ \A n \in DOMAIN accounts :
          balance(accounts[n]) =
              SignedNet(accounts[n].type,
                        [i \in 1..Len(accounts[n].debits) |-> accounts[n].debits[i].amount],
                        [i \in 1..Len(accounts[n].credits) |-> accounts[n].credits[i].amount])
    /\ \A c \in DOMAIN ledger_accounts :
          Ledger_balance(ledger_accounts[c]) =
              SignedNet(ledger_accounts[c].type,
                        [i \in 1..Len(ledger_accounts[c].debits) |-> ledger_accounts[c].debits[i][2]],
                        [i \in 1..Len(ledger_accounts[c].credits) |-> ledger_accounts[c].credits[i][2]])
    /\ models_balance(m_account) =
          SignedNet(m_account.type, m_account.debits, m_account.credits)

\* C5 witness: a credit-normal account holds a debit and a credit entry and
\* its balance is not zero
C5_Witness ==
    \/ /\ prog = "app"
       /\ \E n \in DOMAIN accounts :
             /\ ACCOUNT_TYPES[accounts[n].type] = "credit"
             /\ Len(accounts[n].debits) = 1 /\ Len(accounts[n].credits) = 1
             /\ balance(accounts[n]) # 0
    \/ /\ prog = "models"
       /\ ACCOUNT_TYPES[m_account.type] = "credit"
       /\ Len(m_account.debits) = 1 /\ Len(m_account.credits) = 1
       /\ models_balance(m_account) # 0

\* C6: app.post_transaction rejects every transaction with a debit or credit
\* line whose amount is <= 0 and records nothing for it: every line of every
\* recorded transaction has amount > 0.
C6_RecordedLinesPositive ==
    \A i \in 1..Len(transactions) :
        /\ \A j \in 1..Len(transactions[i].debit_entries) :
              transactions[i].debit_entries[j].amount > 0
        /\ \A j \in 1..Len(transactions[i].credit_entries) :
              transactions[i].credit_entries[j].amount > 0

\* C7: Account.debit and Account.credit (app.Account, models.Account) append
\* an entry only when amount > 0: no account list holds an amount <= 0.
C7_StoredAmountsPositive ==
    /\ \A n \in DOMAIN accounts :
          /\ \A i \in 1..Len(accounts[n].debits) : accounts[n].debits[i].amount > 0
          /\ \A i \in 1..Len(accounts[n].credits) : accounts[n].credits[i].amount > 0
    /\ \A i \in 1..Len(m_account.debits) : m_account.debits[i] > 0
    /\ \A i \in 1..Len(m_account.credits) : m_account.credits[i] > 0

\* C8: Ledger.post_transaction rejects every lines list without a debit line
\* or without a credit line, the empty list included, and adds no entry for
\* it: every call of it that succeeds has added an entry with a debit line
\* and a credit line.
C8_NoSideMissing ==
    [][(prog = "ledger" /\ call'.op = "post_transaction" /\ result' = "ok")
        => /\ Len(journal') = Len(journal) + 1
           /\ LET lines == journal'[Len(journal')].lines
              IN  /\ \E i \in 1..Len(lines) : lines[i].is_debit
                  /\ \E i \in 1..Len(lines) : ~lines[i].is_debit]_vars

\* C9: once an entry is posted it stays posted and is never modified, and
\* Ledger.post_entry on a posted entry raises and leaves every account's
\* debits and credits list and the journal unchanged.
C9_PostedOnce ==
    [][\A id \in DOMAIN journal :
          journal[id].posted =>
              /\ id \in DOMAIN journal'
              /\ journal'[id] = journal[id]
              /\ (call'.op = "post_entry" /\ call'.je_id = id)
                    => /\ result' = "ValueError: Entry already posted"
                       /\ ledger_accounts' = ledger_accounts
                       /\ journal' = journal]_vars

\* C9 witness: post_entry has just been refused on a posted entry
C9_Witness ==
    /\ call.op = "post_entry"
    /\ call.je_id \in DOMAIN journal
    /\ journal[call.je_id].posted
    /\ journal[call.je_id].lines # <<>>
    /\ result = "ValueError: Entry already posted"

\* every entry of the journal is posted: no posting has been left half-way
AllPosted == \A id \in DOMAIN journal : journal[id].posted

\* C10: from a ledger reached by successful postings, Ledger.close_books
\* completes and afterwards every Revenue and every Expense account has
\* balance 0.
C10_CloseBooksZeroes ==
    (prog = "ledger" /\ call.op = "close_books" /\ AllPosted)
        => /\ result = "ok"
           /\ \A c \in DOMAIN ledger_accounts :
                 ledger_accounts[c].type \in {"Revenue", "Expense"}
                     => Ledger_balance(ledger_accounts[c]) = 0

\* the sum of the balances of the Ledger accounts of type typ in accts
TypeTotal(accts, typ) ==
    LET codes == {c \in DOMAIN accts : accts[c].type = typ}
    IN  SumOver(codes, [c \in codes |-> Ledger_balance(accts[c])])

\* C11: a Ledger.close_books call that completes, from a ledger reached by
\* successful postings, increases the balance of the Equity account 3000 by
\* exactly the sum of all Revenue balances minus the sum of all Expense
\* balances as they stood before the call, and returns that amount.
C11_CloseBooksMovesNetIncome ==
    [][(prog = "ledger" /\ call'.op = "close_books" /\ result' = "ok" /\ AllPosted)
        => LET net == TypeTotal(ledger_accounts, "Revenue")
                        - TypeTotal(ledger_accounts, "Expense")
           IN  /\ Ledger_balance(ledger_accounts'["3000"])
                    - Ledger_balance(ledger_accounts["3000"]) = net
               /\ returned' = Money(net)]_vars

\* the journal entries a step has added
AddedEntries(before, after) ==
    {after[id] : id \in (DOMAIN after) \ (DOMAIN before)}

\* C12: Ledger.close_books posts no entry for an account whose balance is
\* zero (every line of every entry it adds, the Equity side apart, names an
\* account whose balance before the call was not zero), and a close_books
\* run immediately after a successful one adds no journal entry and changes
\* no account's debits or credits list.
C12_SecondCloseIsNoOp ==
    [][call'.op = "close_books"
        => /\ \A je \in AddedEntries(journal, journal') :
                 \A i \in 1..Len(je.lines) :
                    je.lines[i].account # "3000"
                        => Ledger_balance(ledger_accounts[je.lines[i].account]) # 0
           /\ (call.op = "close_books" /\ result = "ok")
                 => (journal' = journal /\ ledger_accounts' = ledger_accounts
                     /\ result' = "ok")]_vars

\* C12 witness: close_books has run twice in a row on books that had a
\* revenue and expense balances to close
C12_Witness ==
    /\ call.op = "close_books" /\ result = "ok"
    /\ prev.op = "close_books" /\ prev.result = "ok"
    /\ \E id \in DOMAIN journal :
          journal[id].lines = <<EntryLine("4000", 600000, TRUE),
                                EntryLine("3000", 600000, FALSE)>>
    /\ \E id \in DOMAIN journal :
          journal[id].lines = <<EntryLine("3000", 250000, TRUE),
                                EntryLine("5000", 250000, FALSE)>>

\* a is E / n rounded half-up to a whole number of cents
IsRoundedShare(a, E, n) == 2 * n * a <= 2 * E + n /\ 2 * E + n < 2 * n * (a + 1)

\* the ledger after one posted entry debiting Depreciation Expense (5300)
\* and crediting Accumulated Depreciation (1045) by a, nothing else changed
DepreciationPosted(a) ==
    /\ journal' = Append(journal,
                         [lines |-> <<EntryLine("5300", a, TRUE),
                                      EntryLine("1045", a, FALSE)>>,
                          posted |-> TRUE])
    /\ ledger_accounts' =
          [ledger_accounts EXCEPT
              !["5300"].debits = Append(@, <<Len(journal) + 1, a>>),
              !["1045"].credits = Append(@, <<Len(journal) + 1, a>>)]

\* a calculate_depreciation(months=1, life_years=L) call with L > 0 on a
\* ledger whose Equipment balance is positive
DepreciationCase ==
    /\ call'.op = "calculate_depreciation"
    /\ call'.months = 1
    /\ call'.life_years > 0
    /\ Ledger_balance(ledger_accounts["1040"]) > 0

\* C13 as stated: with a positive Equipment balance E, every
\* calculate_depreciation(months=1, life_years=L) call posts exactly one
\* balanced entry debiting Depreciation Expense and crediting Accumulated
\* Depreciation by E/(12 L) rounded half-up to cents, and changes nothing
\* else (so that k calls in a row move Accumulated Depreciation k times).
C13_EveryCallPostsOneEntry ==
    [][DepreciationCase
        => /\ result' = "ok"
           /\ returned'.kind = "amount"
           /\ IsRoundedShare(returned'.amount,
                             Ledger_balance(ledger_accounts["1040"]),
                             12 * call'.life_years)
           /\ DepreciationPosted(returned'.amount)]_vars

\* C13 amended: the call returns a = E/(12 L) rounded half-up to cents; when
\* a > 0 it posts exactly that one entry and changes nothing else, and when
\* a rounds to 0.00 it posts nothing and leaves the ledger unchanged.
C13_PostsWhenRoundedShareIsPositive ==
    [][DepreciationCase
        => /\ result' = "ok"
           /\ returned'.kind = "amount"
           /\ IsRoundedShare(returned'.amount,
                             Ledger_balance(ledger_accounts["1040"]),
                             12 * call'.life_years)
           /\ IF returned'.amount > 0
              THEN DepreciationPosted(returned'.amount)
              ELSE journal' = journal /\ ledger_accounts' = ledger_accounts]_vars

\* C13 witness: after the demo scenario (Equipment 8000.00) two monthly
\* depreciation calls in a row have each credited 133.33 to Accumulated
\* Depreciation
C13_Witness ==
    /\ call = [op |-> "calculate_depreciation", months |-> 1, life_years |-> 5]
    /\ prev = [op |-> "calculate_depreciation", result |-> "ok"]
    /\ result = "ok"
    /\ returned = Money(13333)
    /\ Ledger_balance(ledger_accounts["1040"]) = 800000
    /\ LET credits == ledger_accounts["1045"].credits
       IN  /\ Len(credits) = 3
           /\ credits[2][2] = 13333 /\ credits[3][2] = 13333

\* how many elements of the sequence seq satisfy P
Count(seq, P(_)) == Cardinality({i \in 1..Len(seq) : P(seq[i])})

\* the sum of the amounts of the entries of list dated d or earlier
SumUpTo(list, d) ==
    NetTotal([i \in 1..Len(list) |-> IF list[i].date <= d THEN list[i].amount ELSE 0])

\* C14: for every account and date d, app.Account.statement(end_date=d)
\* contains exactly the account's entries whose date is <= d (each debit and
\* credit entry of that date and amount as often as the account holds it,
\* none dated later), and the running balance of its last element is the
\* polarity-signed sum of exactly those entries.
C14_StatementUpToEndDate ==
    \A n \in DOMAIN accounts : \A d \in Dates :
        LET acct == accounts[n]
            st == statement(acct, 0, d)
        IN  /\ \A i \in 1..Len(st) : st[i].date <= d
            /\ \A t \in Dates : \A a \in Amounts :
                  /\ Count(st, LAMBDA r : r.type = "debit" /\ r.date = t /\ r.debit = a)
                       = IF t <= d
                         THEN Count(acct.debits, LAMBDA e : e.date = t /\ e.amount = a)
                         ELSE 0
                  /\ Count(st, LAMBDA r : r.type = "credit" /\ r.date = t /\ r.credit = a)
                       = IF t <= d
                         THEN Count(acct.credits, LAMBDA e : e.date = t /\ e.amount = a)
                         ELSE 0
            /\ st # <<>> =>
                  st[Len(st)].balance =
                      IF acct.type \in {"Asset", "Expense"}
                      THEN SumUpTo(acct.debits, d) - SumUpTo(acct.credits, d)
                      ELSE SumUpTo(acct.credits, d) - SumUpTo(acct.debits, d)

\* C14 witness: the statement up to date 1 of an account that holds an entry
\* dated 1 and an entry dated 2 has been asked for, and has one row
C14_Witness ==
    /\ call.op = "statement" /\ call.start_date = 0 /\ call.end_date = 1
    /\ LET acct == accounts[call.name]
       IN  /\ Len(acct.debits) + Len(acct.credits) = 2
           /\ \E i \in 1..Len(acct.debits) : acct.debits[i].date = 2
           /\ \E i \in 1..Len(acct.debits) : acct.debits[i].date = 1
    /\ Len(returned.rows) = 1
    /\ returned.rows[1].balance # 0

\* a trial balance row shows the balance bal of an account of the given type
\* as the claim says: in its natural column when positive, as its absolute
\* value in the opposite column when negative, never in both
RowShows(row, type, bal) ==
    /\ row.debit >= 0 /\ row.credit >= 0
    /\ row.debit = 0 \/ row.credit = 0
    /\ IF type \in {"Asset", "Expense"}
       THEN /\ bal > 0 => (row.debit = bal /\ row.credit = 0)
            /\ bal < 0 => (row.debit = 0 /\ row.credit = -bal)
       ELSE /\ bal > 0 => (row.debit = 0 /\ row.credit = bal)
            /\ bal < 0 => (row.debit = -bal /\ row.credit = 0)

\* the polarity-signed sum of the entries of an app account up to as_of_date
\* (all of them when it is 0)
SignedUpTo(acct, as_of_date) ==
    LET included(list) ==
            [i \in 1..Len(list) |->
                IF as_of_date = 0 \/ list[i].date <= as_of_date
                THEN list[i].amount ELSE 0]
    IN  SignedNet(acct.type, included(acct.debits), included(acct.credits))

\* C15: in every trial balance row (app.trial_balance with and without an
\* as-of date, Ledger.trial_balance) the debit and the credit amount are
\* >= 0 and at most one is non-zero; a positive balance is shown in the
\* account's natural column and a negative one as its absolute value in the
\* opposite column.
C15_TrialRowsOneColumn ==
    /\ \A n \in DOMAIN accounts : \A d \in {0} \cup Dates :
          RowShows(trial_row(accounts[n], d), accounts[n].type,
                   SignedUpTo(accounts[n], d))
    /\ \A c \in DOMAIN ledger_accounts :
          RowShows(Ledger_trial_row(ledger_accounts[c]),
                   ledger_accounts[c].type,
                   SignedNet(ledger_accounts[c].type,
                             [i \in 1..Len(ledger_accounts[c].debits) |->
                                 ledger_accounts[c].debits[i][2]],
                             [i \in 1..Len(ledger_accounts[c].credits) |->
                                 ledger_accounts[c].credits[i][2]]))

\* C15 witness: a trial balance has been asked for when Cash (debit-normal)
\* had a negative balance and Sales Revenue (credit-normal) a negative one:
\* each is shown in its opposite column
C15_Witness ==
    /\ call.op = "trial_balance"
    /\ balance(accounts["Cash"]) < 0
    /\ balance(accounts["Sales Revenue"]) < 0
    /\ returned.accounts["Cash"] =
          [debit |-> 0, credit |-> -balance(accounts["Cash"])]
    /\ returned.accounts["Sales Revenue"] =
          [debit |-> -balance(accounts["Sales Revenue"]), credit |-> 0]

\* the sum, over the app accounts of type typ, of the polarity-signed sums
\* of their entries up to as_of_date
TypeSigned(accts, typ, as_of_date) ==
    LET names == {n \in DOMAIN accts : accts[n].type = typ}
    IN  SumOver(names, [n \in names |-> SignedUpTo(accts[n], as_of_date)])

\* app.balance_sheet reports is_balanced for every as-of date and for none
SheetBalanced(accts) ==
    \A d \in {0} \cup Dates : balance_sheet(accts, d, 1).is_balanced

\* C16: app.balance_sheet reports total equity as the sum of the Equity
\* account balances plus the net income (Revenue minus Expense balances) of
\* the period ending at the as-of date; and, as long as every call succeeds,
\* it reports is_balanced = true with and without an as-of date: it does so
\* on the seeded accounts and every call that succeeds in a state where it
\* does leaves it so.
C16_BalanceSheetBalanced ==
    /\ SheetBalanced(accounts)
    /\ [][(result' = "ok" /\ accounts' # accounts /\ SheetBalanced(accounts))
            => SheetBalanced(accounts')]_vars
    /\ [](call.op = "balance_sheet"
            => /\ returned.totals.equity =
                    TypeSigned(accounts, "Equity", call.as_of_date)
                    + TypeSigned(accounts, "Revenue", call.as_of_date)
                    - TypeSigned(accounts, "Expense", call.as_of_date)
               /\ returned.is_balanced =
                    (returned.totals.assets
                        = returned.totals.liabilities + returned.totals.equity))

\* C16 witness: after two successful postings the balance sheet as of date 1
\* has been asked for; it shows assets, a stored equity balance and a net
\* income, and is balanced
C16_Witness ==
    /\ call = [op |-> "balance_sheet", as_of_date |-> 1]
    /\ Len(transactions) = 2 /\ posts = 2
    /\ returned.is_balanced
    /\ returned.totals.assets # 0
    /\ returned.equity["Owner's Equity"] # 0
    /\ returned.totals.equity # returned.equity["Owner's Equity"]

\* the polarity-signed sum of the entries of an app account dated within
\* start_date .. end_date (a bound of 0 is no bound)
SignedBetween(acct, start_date, end_date) ==
    LET included(list) ==
            [i \in 1..Len(list) |->
                IF /\ (start_date = 0 \/ list[i].date >= start_date)
                   /\ (end_date = 0 \/ list[i].date <= end_date)
                THEN list[i].amount ELSE 0]
    IN  SignedNet(acct.type, included(acct.debits), included(acct.credits))

\* the sum of SignedBetween over the accounts named in names
PeriodTotal(accts, names, start_date, end_date) ==
    SumOver(names, [n \in names |-> SignedBetween(accts[n], start_date, end_date)])

\* what C17 says of the income statement r of accts over start_date .. end_date
IncomeStatementAsClaimed(r, accts, start_date, end_date) ==
    LET revenue == {n \in DOMAIN accts : accts[n].type = "Revenue"}
        expense == {n \in DOMAIN accts : accts[n].type = "Expense"}
        op_rev == {n \in revenue : accts[n].category = "Operating Revenue"}
        op_exp == {n \in expense : accts[n].category = "Operating Expenses"}
    IN  /\ r.operating.revenue = PeriodTotal(accts, op_rev, start_date, end_date)
        /\ r.other.revenue = PeriodTotal(accts, revenue \ op_rev, start_date, end_date)
        /\ r.operating.expenses = PeriodTotal(accts, op_exp, start_date, end_date)
        /\ r.other.expenses = PeriodTotal(accts, expense \ op_exp, start_date, end_date)
        /\ r.totals.net_income =
              (r.operating.revenue + r.other.revenue)
              - (r.operating.expenses + r.other.expenses)
        /\ r.totals.net_income =
              PeriodTotal(accts, revenue, start_date, end_date)
              - PeriodTotal(accts, expense, start_date, end_date)

\* C17: app.income_statement puts every Revenue account's balance into
\* exactly one of operating / other revenue and every Expense account's
\* balance into exactly one of operating / other expenses, by its category,
\* and reports net_income = (operating revenue + other revenue) - (operating
\* expenses + other expenses) = the sum of all Revenue balances minus the
\* sum of all Expense balances over the filtered period.
C17_IncomeStatementPartition ==
    call.op = "income_statement"
        => IncomeStatementAsClaimed(returned, accounts, call.start_date, call.end_date)

\* C17 witness: an income statement with a period bound has been returned
\* that shows operating revenue, other expenses and a net income
C17_Witness ==
    /\ call.op = "income_statement"
    /\ call.start_date # 0 \/ call.end_date # 0
    /\ returned.operating.revenue # 0
    /\ returned.other.expenses # 0
    /\ returned.totals.net_income # 0

\* what load_data returns for the file save_data writes for the ledger
Reloaded(accts, txs) == load_data(save_data(accts, txs))

\* C18: storage.save_data followed by storage.load_data yields accounts with
\* the same per-account debit and credit amount sequences and dates as the
\* ledger that was saved, hence the same balances and the same trial-balance
\* totals; a start right after a successful post restores the accounts.
C18_SaveLoadRoundTrip ==
    (prog = "storage" /\ process_up)
        => LET r == Reloaded(st_accounts, st_transactions)
           IN  /\ r.raised = ""
               /\ DOMAIN r.accounts = DOMAIN st_accounts
               /\ \A n \in DOMAIN st_accounts :
                     /\ r.accounts[n].debits = st_accounts[n].debits
                     /\ r.accounts[n].credits = st_accounts[n].credits
                     /\ balance(r.accounts[n]) = balance(st_accounts[n])
               /\ trial_balance(r.accounts, 0).total_debits
                     = trial_balance(st_accounts, 0).total_debits
               /\ trial_balance(r.accounts, 0).total_credits
                     = trial_balance(st_accounts, 0).total_credits
               /\ (call.op = "startup" /\ prev.op = "post_and_save" /\ prev.result = "ok")
                     => returned.accounts = st_accounts

\* C18 witness: the application was started again after two posts, and the
\* loaded Cash account has a negative and a positive debit on two dates
C18_Witness ==
    /\ prog = "storage"
    /\ call.op = "startup"
    /\ prev.op = "post_and_save" /\ prev.result = "ok"
    /\ Len(returned.accounts["Cash"].debits) = 2
    /\ \E i, j \in 1..2 :
          /\ returned.accounts["Cash"].debits[i].amount < 0
          /\ returned.accounts["Cash"].debits[j].amount > 0
          /\ returned.accounts["Cash"].debits[i].date
                # returned.accounts["Cash"].debits[j].date

\* C19: for every malformed data file (invalid JSON, a missing key, a wrong
\* value type, an account type outside the five valid ones, an unparsable
\* amount or date string) storage.load_data raises nothing and returns empty
\* accounts and an empty history, after which the application seeds the
\* default chart of accounts with all balances zero.
C19_MalformedFileFallsBack ==
    (prog = "storage" /\ call.op = "startup" /\ prev.op = "corrupt_file")
        => /\ result = "ok"
           /\ returned.accounts = NO_ACCOUNTS
           /\ returned.transactions = <<>>
           /\ st_accounts = default_accounts
           /\ \A n \in DOMAIN st_accounts : balance(st_accounts[n]) = 0
           /\ st_transactions = <<>>

\* the three reports of app.py
ReportOps == {"trial_balance", "income_statement", "balance_sheet"}

\* this step is a report call on the web application's ledger
ReportStep == prog = "app" /\ call'.op \in ReportOps

\* this step repeats the report call that was made just before it, with the
\* same arguments
RepeatedReportStep == ReportStep /\ call' = call

\* this step changes no account's debit or credit list and not the history
LedgerLeftAlone ==
    /\ DOMAIN accounts' = DOMAIN accounts
    /\ \A n \in DOMAIN accounts :
          /\ accounts'[n].debits = accounts[n].debits
          /\ accounts'[n].credits = accounts[n].credits
    /\ transactions' = transactions

\* C20: trial_balance, income_statement and balance_sheet, for any date
\* arguments, leave every account's debit and credit lists and the
\* transactions history unchanged, and calling one of them twice in the same
\* ledger state returns the same result.
C20_ReportsArePure ==
    [][(ReportStep => LedgerLeftAlone)
       /\ (RepeatedReportStep => returned' = returned)]_vars

\* C20 as amended: the reports leave the lists and the history unchanged, and
\* a repeated call returns the same result, except that a balance sheet asked
\* for without an as-of date carries the day of the call as its "as_of_date"
\* and is otherwise the same.
C20_ReportsArePureButForTheDayLabel ==
    [][(ReportStep => LedgerLeftAlone)
       /\ (RepeatedReportStep
             => IF call'.op = "balance_sheet" /\ call'.as_of_date = 0
                THEN [returned' EXCEPT !.as_of_date = 0]
                        = [returned EXCEPT !.as_of_date = 0]
                ELSE returned' = returned)]_vars

\* C20 witness: a balance sheet without an as-of date was asked for twice in
\* a row on a ledger with a posted transaction whose two entries bear a
\* date, and shows assets
C20_Witness ==
    /\ prog = "app"
    /\ call.op = "balance_sheet" /\ call.as_of_date = 0
    /\ prev.op = "balance_sheet"
    /\ transactions # <<>>
    /\ returned.totals.assets # 0

\* the ids of the history txs are strictly decreasing from front to back
IdsNewestFirst(txs) ==
    \A i, j \in 1..Len(txs) : i < j => txs[i].id > txs[j].id

\* this step is a call of app.post_transaction, with or without a data file
AppPostStep == call'.op \in {"post_transaction", "post_and_save"} /\ prog # "ledger"

\* the history of the application this run is about, before the step
history == IF prog = "storage" THEN st_transactions ELSE transactions

\* the same history after the step
history_after == IF prog = "storage" THEN st_transactions' ELSE transactions'

\* C21: every successful app.post_transaction records exactly one history
\* entry, with id = (number of entries recorded before it) + 1, at the front
\* of the history; in every reachable state the ids in the history are
\* pairwise distinct and strictly decreasing from front to back; a rejected
\* call consumes no id.
C21_SequentialIdsNewestFirst ==
    /\ [](IdsNewestFirst(transactions) /\ IdsNewestFirst(st_transactions))
    /\ [][AppPostStep
            => IF result' = "ok"
               THEN /\ Len(history_after) = Len(history) + 1
                    /\ Tail(history_after) = history
                    /\ Head(history_after).id = Len(history) + 1
               ELSE history_after = history]_vars

\* C21 witness: two postings have succeeded and the history shows the ids
\* 2, 1
C21_Witness ==
    /\ prog = "app"
    /\ call.op = "post_transaction" /\ result = "ok"
    /\ Len(transactions) = 2
    /\ transactions[1].id = 2 /\ transactions[2].id = 1

\* the sum of the amounts of all debit entries of all accounts
AllDebits(accts) == SumOver(DOMAIN accts, [n \in DOMAIN accts |-> total_debit(accts[n])])

\* the sum of the amounts of all credit entries of all accounts
AllCredits(accts) == SumOver(DOMAIN accts, [n \in DOMAIN accts |-> total_credit(accts[n])])

\* C22: in every state reachable from the seeded app.py ledger by
\* post_transaction calls, accepted or rejected, and calculate_depreciation
\* calls, trial_balance() reports is_balanced = true, i.e. the sum of all
\* debit entries over all accounts equals the sum of all credit entries over
\* all accounts.
C22_AlwaysBalanced ==
    prog \in {"app", "depreciation"}
        => /\ trial_balance(accounts, 0).is_balanced
           /\ AllDebits(accounts) = AllCredits(accounts)

\* p / q rounded to the nearest integer, a tie away from zero (half-up)
round_half_up(p, q) ==
    LET f == p \div q
        r == p - f * q
    IN  IF 2 * r < q THEN f
        ELSE IF 2 * r > q THEN f + 1
        ELSE IF p >= 0 THEN f + 1 ELSE f

\* this step is a call of app.calculate_depreciation, directly or by /reports
AppDepreciationStep == prog = "depreciation" /\ call'.op \in {"depreciation", "reports"}

\* C25: for every Equipment balance E, in cents, app.calculate_depreciation
\* debits Depreciation Expense and credits Accumulated Depreciation by the
\* same amount m, where annual = E/5 rounded half-up to cents and
\* m = annual/12 rounded half-up to cents (a tie such as annual/12 = 0.005
\* rounds up to 0.01).
C25_MonthlyAmountHalfUp ==
    [][AppDepreciationStep
        => LET E == balance(accounts["Equipment"])
               annual == round_half_up(E, 5)
               m == round_half_up(annual, 12)
               dr == accounts'["Depreciation Expense"].debits
               cr == accounts'["Accumulated Depreciation"].credits
           IN  /\ Len(dr) = Len(accounts["Depreciation Expense"].debits) + 1
               /\ Len(cr) = Len(accounts["Accumulated Depreciation"].credits) + 1
               /\ dr[Len(dr)].amount = m
               /\ cr[Len(cr)].amount = m]_vars

\* the number of items of the list that are tagged with the entry id
TaggedWith(items, id) == Cardinality({i \in 1..Len(items) : items[i][1] = id})

\* the number of lines of the entry on the given side of the account code
LinesFor(je, code, is_debit) ==
    Cardinality({i \in 1..Len(je.lines) :
                    je.lines[i].account = code /\ je.lines[i].is_debit = is_debit})

\* C23: under any sequence of Ledger.new_journal_entry, post_entry (also a
\* retry of an entry whose earlier post_entry failed) and create_account
\* calls, no line of a journal entry is applied to an account more than
\* once: for every entry id and account, the number of items tagged with
\* that id in the account's debits (credits) list never exceeds the number
\* of debit (credit) lines the entry has for that account.
C23_NoLineAppliedTwice ==
    prog = "ledger"
        => \A id \in DOMAIN journal : \A code \in DOMAIN ledger_accounts :
              /\ TaggedWith(ledger_accounts[code].debits, id)
                    <= LinesFor(journal[id], code, TRUE)
              /\ TaggedWith(ledger_accounts[code].credits, id)
                    <= LinesFor(journal[id], code, FALSE)

\* the rows one recorded transaction tx put on the account name, in the
\* order post_transaction applies them: its debits, then its credits
RowsOf(tx, name) ==
    LET ds == SelectSeq(tx.debit_entries, LAMBDA l : l.account = name)
        cs == SelectSeq(tx.credit_entries, LAMBDA l : l.account = name)
    IN  [i \in 1..Len(ds) |->
            [date |-> tx.date, debit |-> ds[i].amount, credit |-> 0, type |-> "debit"]]
        \o
        [i \in 1..Len(cs) |->
            [date |-> tx.date, debit |-> 0, credit |-> cs[i].amount, type |-> "credit"]]

RECURSIVE PostedRows(_, _)
\* the rows posted to the account name in the order they were posted; the
\* history txs is newest first
PostedRows(txs, name) ==
    IF txs = <<>> THEN <<>>
    ELSE PostedRows(Tail(txs), name) \o RowsOf(Head(txs), name)

\* every entry of every account was put there by a recorded transaction
AllEntriesRecorded == prog = "app" /\ Len(transactions) = posts

\* C24: app.Account.statement returns the entries sorted by date, entries of
\* the same date in the order in which they were posted to the account, also
\* when debits and credits of the same date were posted interleaved; each
\* running balance is the signed sum of the entries up to and including it
\* in that order.
C24_StatementInPostingOrder ==
    AllEntriesRecorded
        => \A n \in DOMAIN accounts :
              statement(accounts[n], 0, 0)
                 = running(accounts[n], sorted_by_date(PostedRows(transactions, n)), 0)

\* the list before is a prefix of the list after
IsPrefix(before, after) ==
    Len(before) <= Len(after) /\ SubSeq(after, 1, Len(before)) = before

\* every account of before is in after with its type and with debit and
\* credit lists that only grew at the end
OnlyAppended(before, after) ==
    \A n \in DOMAIN before :
        /\ n \in DOMAIN after
        /\ after[n].type = before[n].type
        /\ IsPrefix(before[n].debits, after[n].debits)
        /\ IsPrefix(before[n].credits, after[n].credits)

\* C26: account history is append-only: across any operation (posting,
\* depreciation, closing, create_account with an existing code, rejected
\* calls) no account is removed or replaced, and each account's debit list
\* and credit list before the operation is a prefix of the same list after
\* it.
C26_AppendOnly ==
    [][/\ accounts' # accounts => OnlyAppended(accounts, accounts')
       /\ ledger_accounts' # ledger_accounts
             => OnlyAppended(ledger_accounts, ledger_accounts')
       /\ call'.op = "create_account" /\ call'.code \in DOMAIN ledger_accounts
             => ledger_accounts' = ledger_accounts]_vars

\* C26 witness: create_account was called with the code of an account that
\* has entries, after a closing, and the account still has them
C26_Witness ==
    /\ prog = "ledger"
    /\ call.op = "create_account" /\ call.code = "4000"
    /\ prev.op = "close_books" /\ prev.result = "ok"
    /\ ledger_accounts["4000"].credits # <<>>
    /\ ledger_accounts["4000"].debits # <<>>

\* the sum of the 'amount' fields of the recorded transactions
RecordedAmounts(txs) == SumAmounts(txs)

\* C27: in app.py the transactions history accounts for every account entry:
\* in every reachable state (after any sequence of post_transaction and
\* calculate_depreciation calls, including rejected ones) the sum of all
\* debit entries over all accounts equals the sum of the 'amount' fields of
\* the recorded transactions.
C27_HistoryAccountsForEntries ==
    prog \in {"app", "depreciation"}
        => AllDebits(accounts) = RecordedAmounts(transactions)

\* the total credited to Accumulated Depreciation in app.py
AppAccumulated(accts) == total_credit(accts["Accumulated Depreciation"])

\* the total credited to Accumulated Depreciation (1045) in the Ledger
LedgerAccumulated(accts) == SumTagged(accts["1045"].credits)

\* C28: under any number of repeated calculate_depreciation calls with an
\* unchanged Equipment balance E >= 0, the total credited to Accumulated
\* Depreciation never exceeds E, in app.calculate_depreciation and in
\* Ledger.calculate_depreciation: a call made while the total is within E
\* leaves it within E.
C28_DepreciationCapped ==
    [][/\ AppDepreciationStep
            => LET E == balance(accounts["Equipment"])
               IN  (E >= 0 /\ AppAccumulated(accounts) <= E)
                      => AppAccumulated(accounts') <= E
       /\ (prog = "ledger" /\ call'.op = "calculate_depreciation" /\ result' = "ok")
            => LET E == Ledger_balance(ledger_accounts["1040"])
               IN  (E >= 0 /\ LedgerAccumulated(ledger_accounts) <= E)
                      => LedgerAccumulated(ledger_accounts') <= E]_vars

====
